---- MODULE Spec2Model ----
(***************************************************************************)
(* A model of describe_ortho.py: the batch script that walks flight        *)
(* folders, summarises metadata.csv, reads EXIF tags and raster bounds of   *)
(* every orthophoto and writes one JSON sidecar per image.                  *)
(*                                                                         *)
(* Python values are modelled as pairs <<type, payload>>; a dict is a       *)
(* function from its keys, so {} is the function with the empty domain.     *)
(* File names and CSV cells are sequences of characters / tokens.           *)
(***************************************************************************)
EXTENDS Integers, Sequences, FiniteSets, TLC

VARIABLES
    \* the file system
    tree,         \* the flight folders under the root directory, in os.walk order
    image,        \* what reading each file of an ortho/ directory gives
    json,         \* the contents of the JSON files of each ortho/ directory
    \* main()
    pc,           \* the statement main() is at
    root,         \* the folder os.walk is at
    tif_files,    \* the images of the folder
    file_no,      \* the index in tif_files of `file`
    metadata,     \* the local variables of the loop body
    exif,
    bbox,
    exception,    \* the exception that left main(), "" when none
    stdout,       \* what was printed
    \* observation of one run
    trace,        \* the calls made for the images, in order
    nreads,       \* calls of process_csv_metadata per folder
    discovered,   \* tif_files of each folder visited
    written,      \* the JSON files written
    run,          \* the number of the run
    previous,     \* discovered, written and json at the end of the run before
    \* process_csv_metadata on its own
    csv_file,     \* the CSV under construction (header -> column)
    nrows,        \* number of data rows of csv_file
    csv_pc,       \* "build" | "done" | "idle"
    aggregate     \* what process_csv_metadata(csv_file) did

fs_vars == <<tree, image, json>>
main_vars == <<pc, root, tif_files, file_no, metadata, exif, bbox, exception, stdout>>
obs_vars == <<trace, nreads, discovered, written, run, previous>>
csv_vars == <<csv_file, nrows, csv_pc, aggregate>>
vars == <<fs_vars, main_vars, obs_vars, csv_vars>>

(***************************************************************************)
(* Bounds of the model.                                                    *)
(***************************************************************************)
MaxRows == 2      \* data rows of a generated CSV
MaxCols == 3      \* columns of a generated CSV
MaxFolders == 2   \* flight folders under the root directory
MaxRuns == 2      \* runs of main() on the same tree

(***************************************************************************)
(* Python values.                                                          *)
(***************************************************************************)
None == <<"None", "">>
NaN == <<"nan", "">>
Float(v) == <<"float", v>>
Str(s) == <<"str", s>>
NaT == <<"NaT", "">>
Timestamp(t) == <<"Timestamp", t>>

EmptyDict == [k \in {} |-> None]

\* dict.get(key, None)
get(d, key) == IF key \in DOMAIN d THEN d[key] ELSE None

(***************************************************************************)
(* Text of CSV cells.  A cell is a sequence of tokens; the empty cell is    *)
(* <<>>.  Numbers are written with one digit token and an optional sign.    *)
(* The digit tokens are even so that the mean of two of them is an integer. *)
(***************************************************************************)
DigitVal == [d \in {"2", "4", "6"} |-> CASE d = "2" -> 2 [] d = "4" -> 4 [] d = "6" -> 6]

\* float(text) succeeds
IsFloatText(s) ==
    \/ Len(s) = 1 /\ s[1] \in DOMAIN DigitVal
    \/ Len(s) = 2 /\ s[1] \in {"+", "-"} /\ s[2] \in DOMAIN DigitVal

\* float(text), for a text with IsFloatText
float(s) ==
    IF Len(s) = 1 THEN DigitVal[s[1]]
    ELSE IF s[1] = "-" THEN 0 - DigitVal[s[2]] ELSE DigitVal[s[2]]

RECURSIVE lstrip(_, _)
\* str.lstrip(ch): drops every leading ch
lstrip(s, ch) == IF s # <<>> /\ Head(s) = ch THEN lstrip(Tail(s), ch) ELSE s

(***************************************************************************)
(* pandas: read_csv's type inference and the three reductions.             *)
(***************************************************************************)
\* read_csv infers float64 for a column whose cells are all empty or numeric,
\* object (strings, NaN for the empty cells) otherwise
dtype(column) ==
    IF \A i \in 1..Len(column) : column[i] = <<>> \/ IsFloatText(column[i])
    THEN "float64" ELSE "object"

RECURSIVE Insert(_, _)
Insert(v, sorted) ==
    IF sorted = <<>> THEN <<v>>
    ELSE IF v <= Head(sorted) THEN <<v>> \o sorted
    ELSE <<Head(sorted)>> \o Insert(v, Tail(sorted))

RECURSIVE Sort(_)
Sort(s) == IF s = <<>> THEN <<>> ELSE Insert(Head(s), Sort(Tail(s)))

\* Series.dropna() on a sequence of values
dropna(values) == SelectSeq(values, LAMBDA v : v # NaN /\ v # NaT)

Payloads(values) == [i \in 1..Len(values) |-> values[i][2]]

\* Series.median(): NaN are skipped; NaN when nothing is left
median(values) ==
    LET s == Sort(Payloads(dropna(values)))
        n == Len(s)
    IN  IF n = 0 THEN NaN
        ELSE IF n % 2 = 1 THEN Float(s[(n + 1) \div 2])
        ELSE Float((s[n \div 2] + s[n \div 2 + 1]) \div 2)

\* Series.min() of a datetime column: NaT are skipped; NaT when nothing is left
min(values) ==
    LET s == Sort(Payloads(dropna(values)))
    IN  IF s = <<>> THEN NaT ELSE Timestamp(s[1])

\* the texts a categorical column can hold, in string order
StrOrder == << <<"A">>, <<"B">> >>
Rank(s) == CHOOSE i \in 1..Len(StrOrder) : StrOrder[i] = s

Count(values, v) == Cardinality({i \in 1..Len(values) : values[i] = v})

\* Series.mode(): the most frequent non-NaN values, sorted; empty when all NaN
mode(values) ==
    LET d == dropna(values)
        best == {i \in 1..Len(d) : \A j \in 1..Len(d) : Count(d, d[i]) >= Count(d, d[j])}
        ranks == {Rank(d[i][2]) : i \in best}
    IN  [i \in 1..Cardinality(ranks) |->
            Str(StrOrder[CHOOSE r \in ranks : Cardinality({q \in ranks : q < r}) = i - 1])]

(***************************************************************************)
(* Timestamps.  A date text is <<year, sep, month, sep, day>> optionally     *)
(* followed by <<sep, tenths>>; the model's dates differ in the day and the *)
(* tenths only, and a timestamp is 10 * day + tenths.                       *)
(***************************************************************************)
DayVal == [d \in {"01", "02"} |-> IF d = "01" THEN 1 ELSE 2]

\* .str.replace('(\d{4}):(\d{2}):(\d{2})', r'\1-\2-\3', regex=True)
replace_date(s) ==
    IF Len(s) >= 5 /\ s[2] = ":" /\ s[4] = ":"
    THEN [i \in 1..Len(s) |-> IF i \in {2, 4} THEN "-" ELSE s[i]]
    ELSE s

\* .str.replace(',', '.', regex=False)
replace_comma(s) == [i \in 1..Len(s) |-> IF s[i] = "," THEN "." ELSE s[i]]

\* pd.to_datetime(..., errors='coerce') of one cell
to_datetime(s) ==
    IF /\ Len(s) \in {5, 7}
       /\ s[1] = "2021" /\ s[2] = "-" /\ s[3] = "05" /\ s[4] = "-"
       /\ s[5] \in DOMAIN DayVal
       /\ Len(s) = 7 => (s[6] = "." /\ s[7] \in DOMAIN DigitVal)
    THEN Timestamp(10 * DayVal[s[5]] + (IF Len(s) = 7 THEN DigitVal[s[7]] ELSE 0))
    ELSE NaT

\* Timestamp.isoformat()
isoformat(ts) == <<"isostr", ts[2]>>

(***************************************************************************)
(* process_csv_metadata                                                    *)
(***************************************************************************)
cols == <<"GPS Altitude", "Relative Altitude", "Camera Model Name", "Drone Model",
          "Create Date", "UTC At Exposure", "Gps Status">>

AggKeys == {"gps_altitude", "relative_altitude", "camera_model_name", "drone_model",
            "create_date", "utc_at_exposure", "gps_status"}

\* the column of a CSV as read_csv delivers it: NaN for an empty cell, the
\* number for a cell of a float64 column, the text otherwise
ReadColumn(column) ==
    [i \in 1..Len(column) |->
        IF column[i] = <<>> THEN NaN
        ELSE IF dtype(column) = "float64" THEN Float(float(column[i]))
        ELSE Str(column[i])]

\* .astype(str).str.lstrip('+').astype(float) of one cell: the text of the
\* cell without its leading '+', NaN staying NaN ("nan" parses as NaN)
RelAltText(cell) == IF cell = <<>> THEN <<>> ELSE lstrip(cell, "+")

RelAltRaises(column) ==
    \E i \in 1..Len(column) : column[i] # <<>> /\ ~IsFloatText(RelAltText(column[i]))

RelAltValues(column) ==
    [i \in 1..Len(column) |->
        IF column[i] = <<>> THEN NaN ELSE Float(float(RelAltText(column[i])))]

\* .str on a column that is not of strings raises AttributeError
StrAccessorRaises(column) == dtype(column) = "float64"

CreateDateValues(column) ==
    [i \in 1..Len(column) |->
        IF column[i] = <<>> THEN NaT ELSE to_datetime(replace_date(column[i]))]

UtcValues(column) ==
    [i \in 1..Len(column) |->
        IF column[i] = <<>> THEN NaT
        ELSE to_datetime(replace_comma(replace_date(column[i])))]

\* Series.median() of an object column raises TypeError
MedianRaises(column) == dtype(column) = "object"

ModeOrNone(csv, col) ==
    IF col \in DOMAIN csv /\ mode(ReadColumn(csv[col])) # <<>>
    THEN mode(ReadColumn(csv[col]))[1] ELSE None

MinIsoOrNone(present, values) ==
    IF present /\ min(values) # NaT THEN isoformat(min(values)) ELSE None

Returned(d) == [raised |-> "", printed |-> FALSE, ret |-> d]
Caught == [raised |-> "", printed |-> TRUE, ret |-> EmptyDict]
Raised(e) == [raised |-> e, printed |-> FALSE, ret |-> EmptyDict]

\* csv: the file, a function from its header to its columns.  The result
\* tells whether an exception left the function (raised), whether the
\* except clause printed, and the dict returned.
process_csv_metadata(csv) ==
    LET available_cols == DOMAIN csv
        relevant_cols == SelectSeq(cols, LAMBDA col : col \in available_cols)
        has(col) == col \in DOMAIN csv
    IN  IF relevant_cols = <<>> THEN Caught
        ELSE IF has("Relative Altitude") /\ RelAltRaises(csv["Relative Altitude"])
            THEN Caught
        ELSE IF has("Create Date") /\ StrAccessorRaises(csv["Create Date"])
            THEN Raised("AttributeError")
        ELSE IF has("UTC At Exposure") /\ StrAccessorRaises(csv["UTC At Exposure"])
            THEN Raised("AttributeError")
        ELSE IF has("GPS Altitude") /\ MedianRaises(csv["GPS Altitude"])
            THEN Raised("TypeError")
        ELSE Returned(
            [k \in AggKeys |->
                CASE k = "gps_altitude" ->
                        IF has("GPS Altitude")
                        THEN median(ReadColumn(csv["GPS Altitude"])) ELSE None
                  [] k = "relative_altitude" ->
                        IF has("Relative Altitude")
                        THEN median(RelAltValues(csv["Relative Altitude"])) ELSE None
                  [] k = "camera_model_name" -> ModeOrNone(csv, "Camera Model Name")
                  [] k = "drone_model" -> ModeOrNone(csv, "Drone Model")
                  [] k = "create_date" ->
                        MinIsoOrNone(has("Create Date"),
                            IF has("Create Date")
                            THEN CreateDateValues(csv["Create Date"]) ELSE <<>>)
                  [] k = "utc_at_exposure" ->
                        MinIsoOrNone(has("UTC At Exposure"),
                            IF has("UTC At Exposure")
                            THEN UtcValues(csv["UTC At Exposure"]) ELSE <<>>)
                  [] k = "gps_status" -> ModeOrNone(csv, "Gps Status")])

ColonDate == <<"2021", ":", "05", ":", "02">>
DashDate == <<"2021", "-", "05", "-", "01">>

(***************************************************************************)
(* File names.                                                             *)
(***************************************************************************)
TIF == <<".", "t", "i", "f">>
JSON == <<".", "j", "s", "o", "n">>

\* str.endswith, str.startswith
endswith(s, suffix) ==
    Len(s) >= Len(suffix) /\ SubSeq(s, Len(s) - Len(suffix) + 1, Len(s)) = suffix
startswith(s, prefix) ==
    Len(s) >= Len(prefix) /\ SubSeq(s, 1, Len(prefix)) = prefix

\* os.path.splitext(file)[0]: the name up to its last dot, leading dots apart
splitext(file) ==
    LET dots == {k \in 1..Len(file) : file[k] = "."}
        dotIndex == CHOOSE k \in dots : \A q \in dots : q <= k
    IN  IF dots # {} /\ \E k \in 1..(dotIndex - 1) : file[k] # "."
        THEN SubSeq(file, 1, dotIndex - 1) ELSE file

\* the name of the file save_metadata_to_file writes for `filename`
json_name(filename) == filename \o JSON

A_tif == <<"a">> \o TIF
B_tif == <<"b">> \o TIF
Hidden_tif == <<".", "a">> \o TIF
A_json == <<"a">> \o JSON

(***************************************************************************)
(* The file system.  What a folder holds is fixed the first time the walk   *)
(* reaches it, what a file holds the first time it is read; both are drawn  *)
(* from the pools below and stay as they are from then on.                  *)
(***************************************************************************)
\* the entries os.listdir(ortho_dir) can return before the first run
DirPool == {<<>>,
            <<Hidden_tif, A_json>>,
            <<A_tif>>,
            <<A_json, A_tif>>,
            <<B_tif, Hidden_tif, A_tif>>}

FileNames == UNION {{listing[k] : k \in 1..Len(listing)} : listing \in DirPool}
AllNames == FileNames \cup {json_name(splitext(n)) : n \in FileNames}

\* the metadata.csv files a folder can hold
CsvPool ==
    [no_cols |-> ("Image Name" :> << <<"A">>, <<"B">> >>),
     full |-> [c \in {cols[k] : k \in 1..Len(cols)} |->
                CASE c = "GPS Altitude" -> << <<"2">>, <<"6">> >>
                  [] c = "Relative Altitude" -> << <<"+", "2">>, <<"+", "2">> >>
                  [] c = "Create Date" -> <<ColonDate, DashDate>>
                  [] c = "UTC At Exposure" ->
                        <<ColonDate \o <<",", "4">>, ColonDate \o <<",", "6">> >>
                  [] c = "Gps Status" -> << <<"B">>, <<"B">> >>
                  [] OTHER -> << <<"A">>, <<"B">> >>],
     partial |-> ("GPS Altitude" :> << <<"4">> >>) @@ ("Drone Model" :> << <<"B">> >>)
                    @@ ("Create Date" :> << <<"n/a">> >>),
     raising |-> ("GPS Altitude" :> << <<"4">> >>) @@ ("Create Date" :> << <<>> >>)]

Unseen == [seen |-> FALSE, ortho |-> FALSE, csv |-> "missing", files |-> <<>>]

FolderPool ==
    {[seen |-> TRUE, ortho |-> FALSE, csv |-> "missing", files |-> <<>>]}
    \cup [seen : {TRUE}, ortho : {TRUE}, csv : {"missing"} \cup DOMAIN CsvPool,
          files : DirPool]

\* a file left by an earlier version of the tool
StaleDoc == ("band_name" :> Str("stale"))

Index(file) == IF file = A_tif THEN 1 ELSE 2

\* the tags exiftool reports for a file
Tags(folder, file) ==
    IF file = A_tif
    THEN [BandName |-> Str(<<"band", folder, 1>>),
          AcquisitionDuration |-> Float(60 * folder),
          RadiometricCorrection |-> Str("yes"),
          PixelScale |-> Str(<<"0.023", " ", "0.023">>),
          GDALNoData |-> Float(0 - 10000)]
    ELSE [BandName |-> Str(<<"band", folder, 2>>),
          PixelScale |-> Str(<<"0.05", " ", "0.05">>)]

\* what exiftool prints for a file
exiftool(folder, file, content) ==
    IF content = "garbled" THEN [is_json |-> FALSE, object |-> EmptyDict]
    ELSE [is_json |-> TRUE, object |-> Tags(folder, file)]

\* the bounds of a raster
Bounds(folder, file) ==
    [left |-> 100 * folder + 10 * Index(file), bottom |-> 100 * folder,
     right |-> 100 * folder + 10 * Index(file) + 5, top |-> 100 * folder + 5]

(***************************************************************************)
(* get_exif_metadata, get_bbox, save_metadata_to_file                      *)
(***************************************************************************)
\* float(text) of the texts PixelScale holds, in thousandths
PixelScaleVal == [t \in {"0.023", "0.05"} |-> IF t = "0.023" THEN 23 ELSE 50]

\* str.split()[0]
first_token(s) ==
    IF \E k \in 1..Len(s) : s[k] = " "
    THEN SubSeq(s, 1, (CHOOSE k \in 1..Len(s) : s[k] = " " /\ \A q \in 1..(k - 1) : s[q] # " ") - 1)
    ELSE s

\* seconds to minutes; the model's durations are whole minutes
DurationInMinutes(seconds) == Float(seconds[2] \div 60)

\* the first number of PixelScale times 100 (the payload stays in thousandths)
Gsd(pixel_scale) == Float(PixelScaleVal[first_token(pixel_scale[2])[1]] * 100)

get_exif_metadata(result_stdout) ==
    IF ~result_stdout.is_json THEN Raised("JSONDecodeError")
    ELSE LET m == result_stdout.object
         IN  Returned(
                [band_name |-> get(m, "BandName"),
                 acquisition_duration_in_minutes |->
                    IF "AcquisitionDuration" \in DOMAIN m
                    THEN DurationInMinutes(m["AcquisitionDuration"]) ELSE None,
                 radiometric_correction |-> get(m, "RadiometricCorrection"),
                 gsd |-> IF "PixelScale" \in DOMAIN m THEN Gsd(m["PixelScale"]) ELSE None,
                 gdal_no_data |-> get(m, "GDALNoData")])

get_bbox(folder, file, content) ==
    IF content # "ok" THEN Raised("RasterioIOError")
    ELSE LET bounds == Bounds(folder, file)
         IN  Returned("bbox" :> [xmin |-> bounds.left, ymin |-> bounds.bottom,
                                 xmax |-> bounds.right, ymax |-> bounds.top])

\* dict.update
update(d, other) == other @@ d

\* the JSON files of `directory` after the write
save_metadata_to_file(files, doc, directory, filename) ==
    [files EXCEPT ![directory] = (json_name(filename) :> doc) @@ @]

\* the entries of a directory after `name` was created or overwritten in it
created(listing, name) ==
    IF \E k \in 1..Len(listing) : listing[k] = name THEN listing ELSE Append(listing, name)

(***************************************************************************)
(* main                                                                    *)
(***************************************************************************)
Folders == 1..MaxFolders

\* what reading a file can give: a good raster, a raster rasterio cannot
\* open, a file for which exiftool prints no JSON
Contents == {"ok", "corrupt", "garbled"}

\* the filter without its test of the extension
is_tif_NotHidden(file) == ~startswith(file, <<".">>)

\* file.endswith('.tif') and not file.startswith('.')
is_tif(file) == endswith(file, TIF) /\ ~startswith(file, <<".">>)

list_tif_files(listing) == SelectSeq(listing, is_tif)

\* the path built once, from the first folder
csv_path_First(folder) == 1

\* os.path.join(root, 'metadata.csv'): the folder whose metadata.csv is read
csv_path(folder) == folder

\* metadata.csv looked for inside ortho/
exists_InOrtho(t, path) ==
    \E k \in 1..Len(t[path].files) : t[path].files[k] = <<"metadata.csv">>

\* os.path.exists(csv_path)
exists(t, path) == t[path].csv # "missing"

\* pd.read_csv(csv_path)
read_csv(t, path) == CsvPool[t[path].csv]

\* `if metadata is not None:`
truthy_NotNone(d) == TRUE

\* `if metadata:`
truthy(d) == DOMAIN d # {}

\* no except clause at all, and `except Exception`
catches_Nothing(exc) == FALSE
catches_Everything(exc) == TRUE

\* `except rasterio.errors.RasterioIOError`
catches(exc) == exc = "RasterioIOError"

\* the write moved before the bounding box
after_exif_Save == "save"

\* the statement after get_exif_metadata returned
after_exif == "bbox"

\* the message printed for the first image of a folder only
print_no_csv_OncePerFolder(out, folder, file) ==
    IF \E k \in 1..Len(out) : out[k][1] = "No metadata.csv found" /\ out[k][2] = folder
    THEN out ELSE Append(out, <<"No metadata.csv found", folder, file>>)

\* print(f"No metadata.csv found in {root}. Skipping file {file}.")
print_no_csv(out, folder, file) ==
    Append(out, <<"No metadata.csv found", folder, file>>)

file == tif_files[file_no]

Event(op, ok) == [op |-> op, root |-> root, file |-> file, ok |-> ok]

\* the walk moves on to the next folder
NextFolder ==
    /\ root' = root + 1
    /\ pc' = IF root < MaxFolders THEN "walk" ELSE "done"

\* the loop body ended: the next image, or the next folder
Continue ==
    IF file_no < Len(tif_files)
    THEN /\ file_no' = file_no + 1
         /\ pc' = "loop"
         /\ UNCHANGED root
    ELSE /\ NextFolder
         /\ UNCHANGED file_no

\* an exception inside the try block: caught, reported and the image skipped,
\* or leaving main()
InTry(exc) ==
    IF catches(exc)
    THEN /\ stdout' = Append(stdout, <<"Error reading", 0, file>>)
         /\ Continue
         /\ UNCHANGED exception
    ELSE /\ pc' = "raised"
         /\ exception' = exc
         /\ UNCHANGED <<stdout, root, file_no>>

Init ==
    /\ tree = [f \in Folders |-> Unseen]
    /\ image = [f \in Folders |-> [n \in AllNames |-> "unread"]]
    /\ json = [f \in Folders |-> EmptyDict]
    /\ pc = "walk"
    /\ root = 1
    /\ tif_files = <<>>
    /\ file_no = 1
    /\ metadata = EmptyDict
    /\ exif = EmptyDict
    /\ bbox = EmptyDict
    /\ exception = ""
    /\ stdout = <<>>
    /\ trace = <<>>
    /\ nreads = [f \in Folders |-> 0]
    /\ discovered = [f \in Folders |-> <<>>]
    /\ written = {}
    /\ run = 1
    /\ previous = [discovered |-> [f \in Folders |-> <<>>], written |-> {},
                   json |-> [f \in Folders |-> EmptyDict]]
    /\ csv_file = EmptyDict
    /\ nrows = 0
    /\ csv_pc = "idle"
    /\ aggregate = Returned(EmptyDict)

\* os.walk yields the next folder; `folder` is what it holds
Walk(folder) ==
    /\ pc = "walk"
    /\ tree[root].seen => folder = tree[root]
    /\ tree' = [tree EXCEPT ![root] = folder]
    /\ json' = IF ~tree[root].seen /\ \E k \in 1..Len(folder.files) : folder.files[k] = A_json
               THEN [json EXCEPT ![root] = (A_json :> StaleDoc)]
               ELSE json
    /\ IF folder.ortho
       THEN /\ tif_files' = list_tif_files(folder.files)
            /\ discovered' = [discovered EXCEPT ![root] = tif_files']
            /\ IF tif_files' = <<>>
               THEN NextFolder /\ UNCHANGED file_no
               ELSE pc' = "loop" /\ file_no' = 1 /\ UNCHANGED root
       ELSE /\ NextFolder
            /\ UNCHANGED <<tif_files, file_no, discovered>>
    /\ UNCHANGED <<image, metadata, exif, bbox, exception, stdout, trace, nreads,
                   written, run, previous, csv_vars>>

\* the else branch of `if os.path.exists(csv_path)`
NoCsv ==
    /\ pc = "loop"
    /\ ~exists(tree, csv_path(root))
    /\ stdout' = print_no_csv(stdout, root, file)
    /\ trace' = Append(trace, Event("no_csv", TRUE))
    /\ Continue
    /\ UNCHANGED <<fs_vars, tif_files, metadata, exif, bbox, exception, nreads,
                   discovered, written, run, previous, csv_vars>>

\* metadata = process_csv_metadata(csv_path) and `if metadata:`
ReadCsv ==
    /\ pc = "loop"
    /\ exists(tree, csv_path(root))
    /\ LET r == process_csv_metadata(read_csv(tree, csv_path(root)))
       IN  /\ nreads' = [nreads EXCEPT ![csv_path(root)] = @ + 1]
           /\ trace' = Append(trace, Event("csv", r.raised = "" /\ truthy(r.ret)))
           /\ IF r.raised # ""
              THEN /\ pc' = "raised"
                   /\ exception' = r.raised
                   /\ UNCHANGED <<root, file_no, metadata, stdout>>
              ELSE /\ metadata' = r.ret
                   /\ stdout' = IF r.printed
                                THEN Append(stdout, <<"Error processing CSV file",
                                                      csv_path(root), <<>> >>)
                                ELSE stdout
                   /\ IF truthy(r.ret)
                      THEN pc' = "exif" /\ UNCHANGED <<root, file_no>>
                      ELSE Continue
                   /\ UNCHANGED exception
    /\ UNCHANGED <<fs_vars, tif_files, exif, bbox, discovered, written, run,
                   previous, csv_vars>>

\* exif = get_exif_metadata(image_path); `content` is what the file holds
Exif(content) ==
    /\ pc = "exif"
    /\ image[root][file] # "unread" => content = image[root][file]
    /\ image' = [image EXCEPT ![root][file] = content]
    /\ LET r == get_exif_metadata(exiftool(root, file, content))
       IN  /\ trace' = Append(trace, Event("exif", r.raised = ""))
           /\ IF r.raised # ""
              THEN InTry(r.raised) /\ UNCHANGED exif
              ELSE /\ exif' = r.ret
                   /\ pc' = after_exif
                   /\ UNCHANGED <<root, file_no, exception, stdout>>
    /\ UNCHANGED <<tree, json, tif_files, metadata, bbox, nreads, discovered,
                   written, run, previous, csv_vars>>

\* bbox = get_bbox(image_path)
Bbox ==
    /\ pc = "bbox"
    /\ LET r == get_bbox(root, file, image[root][file])
       IN  /\ trace' = Append(trace, Event("bbox", r.raised = ""))
           /\ IF r.raised # ""
              THEN InTry(r.raised) /\ UNCHANGED bbox
              ELSE /\ bbox' = r.ret
                   /\ pc' = "save"
                   /\ UNCHANGED <<root, file_no, exception, stdout>>
    /\ UNCHANGED <<fs_vars, tif_files, metadata, exif, nreads, discovered,
                   written, run, previous, csv_vars>>

\* metadata.update(exif); metadata.update(bbox); save_metadata_to_file(...)
Save ==
    /\ pc = "save"
    /\ metadata' = update(update(metadata, exif), bbox)
    /\ json' = save_metadata_to_file(json, metadata', root, splitext(file))
    /\ tree' = [tree EXCEPT ![root].files = created(@, json_name(splitext(file)))]
    /\ written' = written \cup {<<root, json_name(splitext(file))>>}
    /\ trace' = Append(trace, Event("write", TRUE))
    /\ Continue
    /\ UNCHANGED <<image, tif_files, exif, bbox, exception, stdout, nreads,
                   discovered, run, previous, csv_vars>>

\* main() is started again on the tree as the run left it
Restart ==
    /\ pc \in {"done", "raised"}
    /\ run < MaxRuns
    /\ run' = run + 1
    /\ previous' = [discovered |-> discovered, written |-> written, json |-> json]
    /\ pc' = "walk"
    /\ root' = 1
    /\ tif_files' = <<>>
    /\ file_no' = 1
    /\ metadata' = EmptyDict
    /\ exif' = EmptyDict
    /\ bbox' = EmptyDict
    /\ exception' = ""
    /\ stdout' = <<>>
    /\ trace' = <<>>
    /\ nreads' = [f \in Folders |-> 0]
    /\ discovered' = [f \in Folders |-> <<>>]
    /\ written' = {}
    /\ UNCHANGED <<fs_vars, csv_vars>>

Next ==
    \/ \E folder \in FolderPool : Walk(folder)
    \/ NoCsv
    \/ ReadCsv
    \/ \E content \in Contents : Exif(content)
    \/ Bbox
    \/ Save

Spec == Init /\ [][Next]_vars

NextTwice == Next \/ Restart

SpecTwice == Init /\ [][NextTwice]_vars

(***************************************************************************)
(* Properties of main(), checked under Spec.                               *)
(***************************************************************************)
\* the walk is past folder f
visited(f) == root > f

\* the messages of stdout that satisfy Test, in order
Printed(Test(_)) == SelectSeq(stdout, Test)

NoCsvMessages(f) ==
    Printed(LAMBDA m : m[1] = "No metadata.csv found" /\ m[2] = f)

\* the position of the image of event e in the listing of its folder
Position(e) ==
    CHOOSE k \in 1..Len(discovered[e.root]) : discovered[e.root][k] = e.file

\* the image of e1 comes before the image of e2 in processing order
Before(e1, e2) ==
    \/ e1.root < e2.root
    \/ e1.root = e2.root /\ Position(e1) < Position(e2)

SameImage(e1, e2) == e1.root = e2.root /\ e1.file = e2.file

\* the last call made for an image: it was written or skipped
Terminal(e) == e.op \in {"write", "no_csv"} \/ (e.op \in {"csv", "bbox"} /\ ~e.ok)

\* the JSON file the image of event e is written to
JsonOf(e) == <<e.root, json_name(splitext(e.file))>>

\* every image of every folder visited was taken up by the loop
AllImagesTakenUp ==
    \A f \in Folders : visited(f) =>
        \A j \in 1..Len(discovered[f]) :
            \E k \in 1..Len(trace) : trace[k].root = f /\ trace[k].file = discovered[f][j]

NoMetadataFolder(f) == visited(f) /\ tree[f].ortho /\ tree[f].csv = "missing"

\* C1 as stated: a folder with ortho/ and no metadata.csv gives no JSON file and
\* exactly one diagnostic naming the folder, however many images it has.
C1_ExactlyOneDiagnostic ==
    \A f \in Folders : NoMetadataFolder(f) =>
        /\ \A w \in written : w[1] # f
        /\ Len(NoCsvMessages(f)) = 1

\* C1 amended: a folder with ortho/ and no metadata.csv gives no JSON file and
\* one diagnostic per .tif image, each naming the folder and the image: none
\* when ortho/ holds no image.
C1_OneDiagnosticPerImage ==
    \A f \in Folders : NoMetadataFolder(f) =>
        /\ \A w \in written : w[1] # f
        /\ json[f] = (IF \E k \in 1..Len(tree[f].files) : tree[f].files[k] = A_json
                      THEN (A_json :> StaleDoc) ELSE EmptyDict)
        /\ Len(NoCsvMessages(f)) = Len(discovered[f])
        /\ \A k \in 1..Len(discovered[f]) :
              NoCsvMessages(f)[k] = <<"No metadata.csv found", f, discovered[f][k]>>

C1_Witness ==
    \E f \in Folders :
        NoMetadataFolder(f) /\ Len(discovered[f]) = 2 /\ Len(NoCsvMessages(f)) = 2

\* C2: a raster that cannot be opened is reported for that file, gives no JSON
\* for that image and never ends the run: the loop goes on with the next image,
\* in the same folder or a later one.
C2_RasterErrorSkipsOneImage ==
    /\ exception # "RasterioIOError"
    /\ AllImagesTakenUp
    /\ \A k \in 1..Len(trace) :
          (trace[k].op = "bbox" /\ ~trace[k].ok) =>
              /\ \E m \in 1..Len(stdout) : stdout[m] = <<"Error reading", 0, trace[k].file>>
              /\ JsonOf(trace[k]) \notin written
              /\ k = Len(trace) => pc \in {"loop", "walk", "done"}
              /\ k < Len(trace) =>
                    /\ trace[k + 1].op \in {"csv", "no_csv"}
                    /\ Before(trace[k], trace[k + 1])

C2_Witness ==
    \E k \in 1..Len(trace) : \E s, t \in (k + 1)..Len(trace) :
        /\ trace[k].op = "bbox" /\ ~trace[k].ok
        /\ trace[s].op = "write" /\ trace[s].root = trace[k].root
        /\ trace[t].op = "write" /\ trace[t].root > trace[k].root

\* C3: when exiftool prints no JSON for an image, nothing catches the error:
\* the run ends at that image, no JSON is written for it and nothing is read
\* or written for any later image.
C3_TagToolFailureEndsRun ==
    \A k \in 1..Len(trace) :
        (trace[k].op = "exif" /\ ~trace[k].ok) =>
            /\ k = Len(trace)
            /\ pc = "raised"
            /\ exception = "JSONDecodeError"
            /\ root = trace[k].root /\ file = trace[k].file
            /\ JsonOf(trace[k]) \notin written
            /\ \A w \in written : \E j \in 1..(k - 1) :
                  trace[j].op = "write" /\ JsonOf(trace[j]) = w

C3_Witness ==
    /\ pc = "raised"
    /\ exception = "JSONDecodeError"
    /\ trace[Len(trace)].op = "exif"
    /\ written # {}
    /\ root < MaxFolders
    /\ ~tree[root + 1].seen

\* C5: with a metadata.csv that has none of the seven columns,
\* process_csv_metadata reports it and returns {}; main() then skips each image
\* of the folder without calling exiftool or rasterio, writes nothing for it,
\* raises nothing and goes on.
C5_NoExpectedColumnSkipsImages ==
    /\ AllImagesTakenUp
    /\ \A k \in 1..Len(trace) :
          tree[trace[k].root].csv = "no_cols" =>
              /\ trace[k].op = "csv" /\ ~trace[k].ok
              /\ JsonOf(trace[k]) \notin written
              /\ k = Len(trace) => (pc \in {"loop", "walk", "done"} /\ exception = "")
              /\ k < Len(trace) =>
                    /\ trace[k + 1].op \in {"csv", "no_csv"}
                    /\ Before(trace[k], trace[k + 1])
    /\ \A f \in Folders : tree[f].csv = "no_cols" =>
          Len(Printed(LAMBDA m : m = <<"Error processing CSV file", f, <<>> >>))
            = Cardinality({k \in 1..Len(trace) : trace[k].root = f})

C5_Witness ==
    \E f \in Folders : \E k \in 1..Len(trace) :
        /\ tree[f].csv = "no_cols" /\ visited(f) /\ Len(discovered[f]) = 2
        /\ nreads[f] = 2
        /\ trace[k].op = "write" /\ trace[k].root > f

\* C8 as stated: within one run the aggregate of a folder is computed once,
\* however many images the folder has.
C8_AggregateOncePerFolder == \A f \in Folders : nreads[f] <= 1

\* C8 amended: process_csv_metadata is called once for every image of the
\* folder (metadata.csv is read again at each image), and not at all for a
\* folder without metadata.csv or without images.
C8_AggregateOncePerImage ==
    /\ \A f \in Folders : visited(f) =>
          nreads[f] = (IF tree[f].ortho /\ tree[f].csv # "missing"
                       THEN Len(discovered[f]) ELSE 0)
    /\ \A f \in Folders :
          nreads[f] = Cardinality({k \in 1..Len(trace) :
                                      trace[k].op = "csv" /\ trace[k].root = f})

C8_Witness ==
    \E f \in Folders : visited(f) /\ Len(discovered[f]) = 2 /\ nreads[f] = 2

\* C9: the calls for one image come in the order tags, bounding box, write; the
\* write follows a tag read and a bounding-box read of the same image that both
\* succeeded; and nothing is done for the next image before the image at hand
\* was written or skipped.
C9_OneImageAtATime ==
    \A k \in 1..Len(trace) :
        LET e == trace[k] IN
        /\ e.op = "exif" =>
              k > 1 /\ trace[k - 1].op = "csv" /\ trace[k - 1].ok /\ SameImage(trace[k - 1], e)
        /\ e.op = "bbox" =>
              k > 1 /\ trace[k - 1].op = "exif" /\ trace[k - 1].ok /\ SameImage(trace[k - 1], e)
        /\ e.op = "write" =>
              /\ k > 2
              /\ trace[k - 1].op = "bbox" /\ trace[k - 1].ok /\ SameImage(trace[k - 1], e)
              /\ trace[k - 2].op = "exif" /\ trace[k - 2].ok /\ SameImage(trace[k - 2], e)
        /\ (e.op \in {"csv", "no_csv"} /\ k > 1) =>
              Terminal(trace[k - 1]) /\ Before(trace[k - 1], e)

C9_Witness ==
    \E k \in 5..Len(trace) :
        /\ trace[k].op = "write"
        /\ trace[k - 4].op = "write"
        /\ trace[k - 4].root = trace[k].root

\* the document main() has to write for an image: the aggregate of the
\* metadata.csv of its folder, its own tags and its own bounding box
Document(f, name) ==
    LET flight == process_csv_metadata(CsvPool[tree[f].csv]).ret
        tags == get_exif_metadata(exiftool(f, name, "ok")).ret
        box == get_bbox(f, name, "ok").ret
    IN  box @@ tags @@ flight

DocumentKeys ==
    AggKeys \cup {"band_name", "acquisition_duration_in_minutes", "radiometric_correction",
                  "gsd", "gdal_no_data", "bbox"}

\* C10: every document written holds the tags and the bounding box read from
\* that very image and the aggregate of the metadata.csv of its own folder.
C10_NoCrossImageLeak ==
    \A k \in 1..Len(trace) :
        trace[k].op = "write" =>
            /\ tree[trace[k].root].csv \in DOMAIN CsvPool
            /\ JsonOf(trace[k])[2] \in DOMAIN json[trace[k].root]
            /\ DOMAIN json[trace[k].root][JsonOf(trace[k])[2]] = DocumentKeys
            /\ json[trace[k].root][JsonOf(trace[k])[2]] = Document(trace[k].root, trace[k].file)

C10_Witness ==
    \E j, k, m \in 1..Len(trace) :
        /\ j < k /\ k < m
        /\ trace[j].op = "write" /\ trace[m].op = "write"
        /\ trace[k].op = "bbox" /\ ~trace[k].ok
        /\ trace[j].root # trace[m].root
        /\ tree[trace[j].root].csv # tree[trace[m].root].csv

(***************************************************************************)
(* Two runs on the same tree, checked under SpecTwice.                      *)
(***************************************************************************)
RunEnded == pc \in {"done", "raised"}

\* C6: a second run on unchanged inputs finds the same images (the JSON files
\* of the first run are no inputs), writes the same paths, one per image
\* processed, and leaves every file with the content the first run gave it.
C6_SecondRunIdentical ==
    (run > 1 /\ RunEnded) =>
        /\ discovered = previous.discovered
        /\ written = previous.written
        /\ json = previous.json
        /\ written = {JsonOf(trace[k]) : k \in {q \in 1..Len(trace) : trace[q].op = "write"}}
        /\ Cardinality(written) = Cardinality({q \in 1..Len(trace) : trace[q].op = "write"})

C6_Witness ==
    /\ run = 2 /\ pc = "done"
    /\ Cardinality(written) >= 2
    /\ \E f \in Folders :
          /\ \E k \in 1..Len(tree[f].files) : tree[f].files[k] = A_json
          /\ <<f, A_json>> \in written

(***************************************************************************)
(* SpecCsv: process_csv_metadata applied to every CSV of at most MaxCols    *)
(* columns and MaxRows rows whose cells come from the pools below.          *)
(***************************************************************************)
Headers == {cols[i] : i \in 1..Len(cols)} \cup {"Image Name"}

CellPool(header) ==
    CASE header = "GPS Altitude" -> {<<>>, <<"2">>, <<"6">>, <<"x">>}
      [] header = "Relative Altitude" -> {<<>>, <<"+", "2">>, <<"-", "6">>, <<"x">>}
      [] header = "Create Date" -> {<<>>, ColonDate, DashDate, <<"n/a">>}
      [] header = "UTC At Exposure" ->
            {<<>>, ColonDate \o <<",", "4">>, DashDate \o <<".", "6">>, <<"n/a">>}
      [] OTHER -> {<<>>, <<"A">>, <<"B">>}

ColumnPool(header, n) == [1..n -> CellPool(header)]

InitCsv ==
    /\ tree = [f \in Folders |-> Unseen]
    /\ image = [f \in Folders |-> [n \in AllNames |-> "unread"]]
    /\ json = [f \in Folders |-> EmptyDict]
    /\ pc = "idle"
    /\ root = 1
    /\ tif_files = <<>>
    /\ file_no = 1
    /\ metadata = EmptyDict
    /\ exif = EmptyDict
    /\ bbox = EmptyDict
    /\ exception = ""
    /\ stdout = <<>>
    /\ trace = <<>>
    /\ nreads = [f \in Folders |-> 0]
    /\ discovered = [f \in Folders |-> <<>>]
    /\ written = {}
    /\ run = 1
    /\ previous = [discovered |-> [f \in Folders |-> <<>>], written |-> {},
                   json |-> [f \in Folders |-> EmptyDict]]
    /\ csv_file = EmptyDict
    /\ nrows \in 1..MaxRows
    /\ csv_pc = "build"
    /\ aggregate = Returned(EmptyDict)

\* one more column in the file
AddColumn(header, column) ==
    /\ csv_pc = "build"
    /\ header \notin DOMAIN csv_file
    /\ Cardinality(DOMAIN csv_file) < MaxCols
    /\ csv_file' = (header :> column) @@ csv_file
    /\ UNCHANGED <<nrows, csv_pc, aggregate, fs_vars, main_vars, obs_vars>>

\* the call process_csv_metadata(csv_path)
ProcessCsv ==
    /\ csv_pc = "build"
    /\ aggregate' = process_csv_metadata(csv_file)
    /\ csv_pc' = "done"
    /\ UNCHANGED <<csv_file, nrows, fs_vars, main_vars, obs_vars>>

NextCsv ==
    \/ \E header \in Headers : \E column \in ColumnPool(header, nrows) :
            AddColumn(header, column)
    \/ ProcessCsv

SpecCsv == InitCsv /\ [][NextCsv]_vars

(***************************************************************************)
(* Properties of process_csv_metadata, checked under SpecCsv.              *)
(***************************************************************************)
\* the field of the result computed from a column
FieldOf(header) ==
    CASE header = "GPS Altitude" -> "gps_altitude"
      [] header = "Relative Altitude" -> "relative_altitude"
      [] header = "Camera Model Name" -> "camera_model_name"
      [] header = "Drone Model" -> "drone_model"
      [] header = "Create Date" -> "create_date"
      [] header = "UTC At Exposure" -> "utc_at_exposure"
      [] header = "Gps Status" -> "gps_status"

\* the cell holds a value of the kind its column is read as
Parses(header, cell) ==
    CASE header = "GPS Altitude" -> IsFloatText(cell)
      [] header = "Relative Altitude" -> IsFloatText(lstrip(cell, "+"))
      [] header = "Create Date" -> to_datetime(replace_date(cell)) # NaT
      [] header = "UTC At Exposure" -> to_datetime(replace_comma(replace_date(cell))) # NaT
      [] OTHER -> TRUE

\* the column is absent, entirely empty, or holds only values that fail to parse
NothingToAggregate(csv, header) ==
    \/ header \notin DOMAIN csv
    \/ \A k \in 1..Len(csv[header]) :
          csv[header][k] = <<>> \/ ~Parses(header, csv[header][k])

ExpectedHeaders == {cols[k] : k \in 1..Len(cols)}

IsMapping(r) == r.raised = "" /\ DOMAIN r.ret = AggKeys

\* C4: process_csv_metadata returns all seven fields, each null on its own
\* account: a column that is absent, entirely empty or unparsable makes its own
\* field null and leaves the other six to the aggregates of their columns; the
\* call neither returns an empty result nor raises.
C4_FieldsNullIndependently ==
    (csv_pc = "done" /\ DOMAIN csv_file \cap ExpectedHeaders # {}) =>
        /\ IsMapping(aggregate)
        /\ \A header \in ExpectedHeaders :
              (aggregate.ret[FieldOf(header)] = None) <=> NothingToAggregate(csv_file, header)

\* C7: for a CSV without 'Relative Altitude' and with another expected column
\* the result has relative_altitude = null, and each of the other six fields
\* is what it is when the column is there.
C7_MissingRelativeAltitude ==
    (/\ csv_pc = "done"
     /\ "Relative Altitude" \notin DOMAIN csv_file
     /\ DOMAIN csv_file \cap ExpectedHeaders # {}) =>
        /\ IsMapping(aggregate)
        /\ aggregate.ret["relative_altitude"] = None
        /\ \A column \in ColumnPool("Relative Altitude", nrows) :
              LET with == process_csv_metadata(("Relative Altitude" :> column) @@ csv_file)
              IN  /\ IsMapping(with)
                  /\ \A k \in AggKeys \ {"relative_altitude"} : with.ret[k] = aggregate.ret[k]

====
